---- MODULE Spec2Model ----
(***************************************************************************)
(* cloud-agent (`ca`): one invocation of the command line tool is a        *)
(* sequential program that issues external calls (gcloud, terraform, ssh,  *)
(* scp, IP echo services) against an environment that persists between     *)
(* invocations (the terraform state file, the cloud instance, the remote   *)
(* /workspace directory).                                                  *)
(*                                                                         *)
(* pc is the position of the invocation, stack the return positions of     *)
(* the calls in progress (vm_exists, get_vm_ip, generate_tfvars and        *)
(* create_vm are called from several places), calls the external calls    *)
(* issued so far by the invocation, each with its outcome.                 *)
(***************************************************************************)
EXTENDS Naturals, Sequences, FiniteSets

VARIABLES
    run,      \* number of the invocation
    pc,       \* position of the invocation
    stack,    \* return positions of the function calls in progress
    args,     \* cli::Args: command, agent, repos, skip_creds, scp src/dst
    cfg,      \* config::Config: ssh_key and github_token (Option is Some)
    local,    \* local files probed so far: <key>.pub and the agents' credential files
    env,      \* tfstate file, cloud instance, remote workspace directories
    calls,    \* what this invocation did so far, in order: the commands, writes and
              \* remote operations it issued and what its queries returned
    probe,    \* the external calls of the query (vm_exists, get_vm_ip,
              \* detect_public_ipv4) in progress or just finished: its locals
    result,   \* "running", "ok" or the error the invocation ended with
    ret,      \* value returned by the last vm_exists
    vm_ip,    \* value returned by the last get_vm_ip
    ssh_client, \* SshClient.vm_ip of the client deploy_repos, ssh or scp built
    idx,      \* loop index (IP echo service, agent, repository)
    obs       \* observations of this invocation the properties refer to

vars == <<run, pc, stack, args, cfg, local, env, calls, probe, result, ret, vm_ip, ssh_client,
          idx, obs>>

----------------------------------------------------------------------------
(* Bounds *)

MaxRuns == 2

\* tokens in a URL and characters in an owner name given to the functions that are
\* applied on their own
MaxUrlTokens == 3

MaxOwnerLen == 3

\* fields of the strings given to is_valid_ipv4
MaxIpFields == 5

----------------------------------------------------------------------------
(* Strings are sequences of one-character strings. *)

GitSuffix == <<".", "g", "i", "t">>

\* git@h:o/r.git
UrlSsh == <<"g", "i", "t", "@", "h", ":", "o", "/", "r">> \o GitSuffix

\* https://h/o/r        (same short name as UrlSsh)
UrlHttps == <<"h", "t", "t", "p", "s", ":", "/", "/", "h", "/", "o", "/", "r">>

\* https://h/o/.git     (the short name is empty)
UrlNoName == <<"h", "t", "t", "p", "s", ":", "/", "/", "h", "/", "o", "/">> \o GitSuffix


\* invalid-url, the URL test_validate_repo_url rejects
UrlInvalid == <<"i", "n", "v", "a", "l", "i", "d", "-", "u", "r", "l">>

\* h/o/r
UrlNoScheme == <<"h", "/", "o", "/", "r">>

\* The repository lists of the command line: none, two of one short name, one
\* without a name before and after a good one, and one of no scheme
RepoLists ==
    { <<>>, <<UrlSsh, UrlHttps>>, <<UrlNoName, UrlSsh>>, <<UrlSsh, UrlNoName>>, <<UrlNoScheme>> }

\* The origin URLs detect_current_repo may find
OriginUrls == {UrlSsh, UrlNoName}

HasSuffix(s, suf) ==
    /\ Len(s) >= Len(suf)
    /\ SubSeq(s, Len(s) - Len(suf) + 1, Len(s)) = suf

\* str::trim_end_matches(".git"): the suffix is removed repeatedly
RECURSIVE trim_end_matches(_, _)
trim_end_matches(s, suf) ==
    IF HasSuffix(s, suf) THEN trim_end_matches(SubSeq(s, 1, Len(s) - Len(suf)), suf)
    ELSE s

\* url.rsplit('/').next(): what follows the last '/', the whole string when there is none
RECURSIVE rsplit_first(_)
rsplit_first(s) ==
    IF s = <<>> THEN <<>>
    ELSE IF s[Len(s)] = "/" THEN <<>>
    ELSE Append(rsplit_first(SubSeq(s, 1, Len(s) - 1)), s[Len(s)])

\* utils::extract_repo_name: <<TRUE, name>> or <<FALSE, <<>>>> for InvalidRepoUrl
extract_repo_name(url) ==
    LET name == trim_end_matches(rsplit_first(url), GitSuffix)
    IN  IF name = <<>> THEN <<FALSE, <<>>>> ELSE <<TRUE, name>>

GitAt == <<"g", "i", "t", "@">>

Https == <<"h", "t", "t", "p", "s", ":", "/", "/">>

Http == <<"h", "t", "t", "p", ":", "/", "/">>

\* str::starts_with
starts_with(s, p) == Len(s) >= Len(p) /\ SubSeq(s, 1, Len(p)) = p

\* Faulty variant of validate_repo_url: the test for http:// is missing
validate_repo_url_no_http(url) ==
    IF starts_with(url, GitAt) \/ starts_with(url, Https)
    THEN <<TRUE, <<>>>>
    ELSE <<FALSE, url>>

\* git::validate_repo_url: <<TRUE, <<>>>> for Ok(()), or <<FALSE, url>> for
\* InvalidRepoUrl(url)
validate_repo_url(url) ==
    IF starts_with(url, GitAt) \/ starts_with(url, Https) \/ starts_with(url, Http)
    THEN <<TRUE, <<>>>>
    ELSE <<FALSE, url>>

\* str::replace for one character
RECURSIVE replace(_, _, _)
replace(s, from, to) ==
    IF s = <<>> THEN <<>>
    ELSE <<IF s[1] = from THEN to ELSE s[1]>> \o replace(Tail(s), from, to)

\* -cloud-agent
CloudAgentSuffix == <<"-", "c", "l", "o", "u", "d", "-", "a", "g", "e", "n", "t">>

\* Faulty variant of derive_vm_name: the owner is used as it is
derive_vm_name_raw(owner) == owner \o CloudAgentSuffix

\* config.rs:151-153
derive_vm_name(owner) == replace(owner, "_", "-") \o CloudAgentSuffix

\* config.rs:76
ssh_username(owner) == replace(owner, "_", "-")

\* the largest value of a u8 (utils.rs:62, parse::<u8>)
U8Max == 255

DigitValue ==
    [ c \in {"0", "1", "2", "3", "4", "5", "6", "7", "8", "9"} |->
        CASE c = "0" -> 0 [] c = "1" -> 1 [] c = "2" -> 2 [] c = "3" -> 3 [] c = "4" -> 4
          [] c = "5" -> 5 [] c = "6" -> 6 [] c = "7" -> 7 [] c = "8" -> 8 [] c = "9" -> 9 ]

\* the digits of <u8 as FromStr>::from_str, most significant first: an Err for a
\* character that is no digit and for a value above U8Max (checked_mul, checked_add)
RECURSIVE parse_digits(_, _)
parse_digits(s, acc) ==
    IF s = <<>> THEN <<TRUE, acc>>
    ELSE IF Head(s) \notin DOMAIN DigitValue THEN <<FALSE, 0>>
    ELSE LET v == acc * 10 + DigitValue[Head(s)]
         IN  IF v > U8Max THEN <<FALSE, 0>> ELSE parse_digits(Tail(s), v)

\* s.parse::<u8>(): the empty string and a lone sign are errors, one leading '+' is
\* accepted, a '-' is an invalid digit of an unsigned type
parse_u8(s) ==
    IF s = <<>> \/ s = <<"+">> \/ s = <<"-">> THEN <<FALSE, 0>>
    ELSE IF Head(s) = "+" THEN parse_digits(Tail(s), 0)
    ELSE parse_digits(s, 0)

\* str::split(sep): the fields between the separators, one (empty) field for ""
RECURSIVE split(_, _)
split(s, sep) ==
    IF \A i \in 1..Len(s) : s[i] # sep THEN <<s>>
    ELSE LET i == CHOOSE k \in 1..Len(s) : s[k] = sep /\ \A j \in 1..(k - 1) : s[j] # sep
         IN  <<SubSeq(s, 1, i - 1)>> \o split(SubSeq(s, i + 1, Len(s)), sep)

\* utils::is_valid_ipv4: split on '.', keep the fields that parse as u8, count them
is_valid_ipv4(ip) ==
    LET fields == split(ip, ".")
    IN  Cardinality({i \in 1..Len(fields) : parse_u8(fields[i])[1]}) = 4

Whitespace == {" ", "\n"}

\* str::trim
RECURSIVE trim(_)
trim(s) ==
    IF s = <<>> THEN s
    ELSE IF s[1] \in Whitespace THEN trim(Tail(s))
    ELSE IF s[Len(s)] \in Whitespace THEN trim(SubSeq(s, 1, Len(s) - 1))
    ELSE s

to_ascii_lowercase(c) == IF c = "Y" THEN "y" ELSE IF c = "N" THEN "n" ELSE c

eq_ignore_ascii_case(s, t) ==
    /\ Len(s) = Len(t)
    /\ \A i \in 1..Len(s) : to_ascii_lowercase(s[i]) = to_ascii_lowercase(t[i])

\* Lines the user may type at the terminate prompt
Responses ==
    { <<>>, <<"\n">>, <<"y", "\n">>, <<"Y", "\n">>, <<" ", "y", " ", "\n">>,
      <<"n", "\n">>, <<"N", "\n">>, <<"y", "e", "s", "\n">>, <<"y", "y", "\n">> }

\* Faulty variant of confirmed: everything but "n" goes on (a default of yes)
confirmed_unless_n(input) == ~eq_ignore_ascii_case(trim(input), <<"n">>)

\* gcp.rs:100, the test the answer must pass for terminate to go on
confirmed(input) == eq_ignore_ascii_case(trim(input), <<"y">>)

----------------------------------------------------------------------------
(* Agents *)

\* agents::list_agents
list_agents == <<"auggie", "claude", "codex">>

\* the identifiers AgentManager::new matches
Registry == {"auggie", "claude", "codex"}

\* agents/mod.rs:57: the list the AgentNotFound error carries
available == "auggie, claude, codex"

\* Faulty variant of AgentManager_lookup: the arm for codex is missing from the match
AgentManager_lookup_no_codex(agent) ==
    IF agent \in Registry \ {"codex"} THEN <<"Ok", agent>>
    ELSE <<"AgentNotFound", agent, available>>

\* AgentManager::new as a function of config.agent: Ok, or the error and its fields
AgentManager_lookup(agent) ==
    IF agent \in Registry THEN <<"Ok", agent>>
    ELSE <<"AgentNotFound", agent, available>>

AgentArgs == Registry \cup {"invalid-agent"}

Commands ==
    {"list", "start", "stop", "terminate", "ssh", "scp", "tf", "create_vm", "deploy", "full"}

----------------------------------------------------------------------------
(* The log of external calls *)

\* rc: "ok" (exit status 0), "fail" (non-zero exit status), "err" (the process could
\* not be run: std::io::Error); repo is the URL a clone-or-pull command is about
\* and to the address a remote command or copy goes to; out is the text an IP echo
\* service answered, the address detect_public_ipv4 returned, or the allow-list
\* written to terraform.tfvars
Call(op, arg, rc) ==
    [op |-> op, arg |-> arg, rc |-> rc, repo |-> <<>>, to |-> "", out |-> <<>>]

RC == {"ok", "fail", "err"}

Issued(op) == \E i \in 1..Len(calls) : calls[i].op = op

IssuedOk(op) == \E i \in 1..Len(calls) : calls[i].op = op /\ calls[i].rc = "ok"

\* remote commands and file copies (ssh.rs)
RemoteOps ==
    { "ssh_mkdir", "scp_key", "scp_pub", "ssh_keycfg", "ssh_token",
      "scp_cred", "ssh_cred", "ssh_chmod_ws", "ssh_clone", "ssh_ls",
      "ssh_interactive", "scp_prefix" }

\* the credential-transfer steps of transfer_credentials / transfer_agent_credentials
CredOps == {"ssh_mkdir", "scp_key", "scp_pub", "ssh_keycfg", "ssh_token", "scp_cred", "ssh_cred"}

\* writes and commands that create, change or destroy infrastructure
MutatingOps == {"tfvars_write", "tf_init", "tf_apply", "tf_destroy",
                "gcloud_start", "gcloud_stop", "gcloud_delete"}

----------------------------------------------------------------------------
(* Control: every action sets pc, stack and result through one of these *)

Step(l) == pc' = l /\ UNCHANGED <<stack, result>>

CallFn(f, back) == pc' = f /\ stack' = <<back>> \o stack /\ UNCHANGED result

Return == pc' = Head(stack) /\ stack' = Tail(stack) /\ UNCHANGED result

\* an Err propagated by `?` up to main
Raise(e) == pc' = "done" /\ result' = e /\ stack' = <<>>

Finish == pc' = "done" /\ result' = "ok" /\ stack' = <<>>

Log(c) == calls' = Append(calls, c)

----------------------------------------------------------------------------
(* State after construction *)

NoArgs == [command |-> "list", agent |-> "auggie", repos |-> <<>>, skip_creds |-> FALSE,
           scp_args |-> TRUE]

NoCfg == [ssh_key |-> FALSE, github_token |-> FALSE]

NoLocal == [pub_key |-> "unknown", creds |-> [a \in Registry |-> "unknown"]]

Envs == [tfstate : {"none", "mine", "other"}, vm : BOOLEAN, workspace : {{}}]

\* prereq: outcome of check_prerequisites; full_exists, deploy_exists,
\* create_exists: what vm_exists returned to full_deploy, deploy_repos and
\* create_vm(false); create: how create_vm ended; env0: env when the invocation
\* began, or when it entered create_vm; input: the line read at the terminate
\* prompt; creds: how far transfer_credentials got; ready: print_success_message
\* printed its report
NoInput == <<"none">>

NoObs(e) == [prereq |-> "none", full_exists |-> "none", deploy_exists |-> "none",
             create_exists |-> "none", create |-> "none", env0 |-> e,
             input |-> NoInput, creds |-> "none", ready |-> FALSE]

Init ==
    /\ run = 1
    /\ pc = "idle"
    /\ stack = <<>>
    /\ args = NoArgs
    /\ cfg = NoCfg
    /\ local = NoLocal
    /\ env \in Envs
    /\ calls = <<>>
    /\ probe = <<>>
    /\ result = "running"
    /\ ret = FALSE
    /\ vm_ip = "none"
    /\ ssh_client = "none"
    /\ idx = 0
    /\ obs = NoObs(env)

----------------------------------------------------------------------------
(* main / cli::execute *)

\* main.rs:30, Args::parse: the command line of this invocation
Invoke ==
    /\ pc = "idle"
    /\ \E c \in Commands, a \in AgentArgs, r \in RepoLists, sk \in BOOLEAN, sa \in BOOLEAN :
          /\ c \notin {"deploy", "full"} => r = <<>>
          /\ c # "deploy" => sk = FALSE
          /\ c # "scp" => sa = TRUE
          /\ args' = [command |-> c, agent |-> a, repos |-> r, skip_creds |-> sk,
                      scp_args |-> sa]
    /\ Step("from_args")
    /\ probe' = <<>>
    /\ UNCHANGED <<run, cfg, local, env, calls, ret, vm_ip, ssh_client, idx, obs>>

\* Config::from_args: get_gcp_project, derive_owner, the ssh key (given or detected)
\* and the token
from_args ==
    /\ pc = "from_args"
    /\ \E rc \in RC \cup {"empty"} :
          /\ Log(Call("gcloud_config", "project", rc))
          /\ \/ /\ rc = "err"
                /\ Raise("Io")
                /\ UNCHANGED cfg
             \/ /\ rc \in {"fail", "empty"}
                /\ Raise("GcpProjectNotConfigured")
                /\ UNCHANGED cfg
             \/ /\ rc = "ok"
                /\ \/ /\ Raise("ConfigError")      \* derive_owner: USER is not set
                      /\ UNCHANGED cfg
                   \/ /\ \E k \in BOOLEAN, t \in BOOLEAN :
                            /\ k => ~t    \* the token is looked at only when there is no key
                            /\ cfg' = [ssh_key |-> k, github_token |-> t]
                      /\ Step("agent_new")
    /\ probe' = <<>>
    /\ UNCHANGED <<run, args, local, env, ret, vm_ip, ssh_client, idx, obs>>

\* AgentManager::new
AgentManager_new ==
    /\ pc = "agent_new"
    /\ IF AgentManager_lookup(args.agent)[1] = "Ok" THEN Step("check_prerequisites")
       ELSE Raise("AgentNotFound")
    /\ probe' = <<>>
    /\ UNCHANGED <<run, args, cfg, local, env, calls, ret, vm_ip, ssh_client, idx, obs>>

\* Faulty variant of check_prerequisites: the Err of the check is dropped and the
\* command is dispatched all the same
check_prerequisites_dropped ==
    /\ pc = "check_prerequisites"
    /\ \E installed \in BOOLEAN, logged \in BOOLEAN :
          /\ local' = [local EXCEPT !.creds[args.agent] = IF logged THEN "yes" ELSE "no"]
          /\ obs' = [obs EXCEPT !.prereq = IF installed /\ logged THEN "ok" ELSE "failed"]
          /\ Step("dispatch")
    /\ probe' = <<>>
    /\ UNCHANGED <<run, args, cfg, env, calls, ret, vm_ip, ssh_client, idx>>

\* AgentManager::check_prerequisites: check_local, then check_logged_in, which probes
\* the selected agent's credential file
check_prerequisites ==
    /\ pc = "check_prerequisites"
    /\ \E installed \in BOOLEAN, logged \in BOOLEAN :
          IF ~installed
          THEN /\ Raise("AgentNotLoggedIn")
               /\ obs' = [obs EXCEPT !.prereq = "failed"]
               /\ UNCHANGED local
          ELSE /\ local' = [local EXCEPT !.creds[args.agent] = IF logged THEN "yes" ELSE "no"]
               /\ IF logged
                  THEN Step("dispatch") /\ obs' = [obs EXCEPT !.prereq = "ok"]
                  ELSE Raise("AgentNotLoggedIn") /\ obs' = [obs EXCEPT !.prereq = "failed"]
    /\ probe' = <<>>
    /\ UNCHANGED <<run, args, cfg, env, calls, ret, vm_ip, ssh_client, idx>>

\* git::detect_current_repo, used by the default command when no URL is given
detect_current_repo ==
    /\ pc = "detect_repo"
    /\ \/ /\ Log(Call("git_rev_parse", "", "fail"))
          /\ Raise("ConfigError")
          /\ UNCHANGED args
       \/ /\ \E rc \in RC \cup {"empty"} :
                /\ calls' = calls \o <<Call("git_rev_parse", "", "ok"),
                                       Call("git_remote_get_url", "origin", rc)>>
                /\ IF rc = "ok"
                   THEN /\ \E u \in OriginUrls : args' = [args EXCEPT !.repos = <<u>>]
                        /\ Step("full_deploy")
                   ELSE /\ Raise(IF rc = "err" THEN "Io" ELSE "ConfigError")
                        /\ UNCHANGED args
    /\ probe' = <<>>
    /\ UNCHANGED <<run, cfg, local, env, ret, vm_ip, ssh_client, idx, obs>>

\* the match of cli::execute
CommandEntry(c) ==
    CASE c = "list" -> "list"
      [] c = "start" -> "start"
      [] c = "stop" -> "stop"
      [] c = "terminate" -> "terminate"
      [] c = "ssh" -> "ssh"
      [] c = "scp" -> "scp"
      [] c = "tf" -> "apply_terraform"
      [] c = "create_vm" -> "create_vm"
      [] c = "deploy" -> "deploy_repos"
      [] OTHER -> IF args.repos = <<>> THEN "detect_repo" ELSE "full_deploy"

execute_match ==
    /\ pc = "dispatch"
    /\ pc' = CommandEntry(args.command)
    /\ stack' = <<"exit">>
    /\ probe' = <<>>
    /\ UNCHANGED <<run, args, cfg, local, env, calls, result, ret, vm_ip, ssh_client, idx, obs>>

\* the command returned Ok(()) to execute, and execute to main
execute_ok ==
    /\ pc = "exit"
    /\ Finish
    /\ probe' = <<>>
    /\ UNCHANGED <<run, args, cfg, local, env, calls, ret, vm_ip, ssh_client, idx, obs>>

\* the next invocation of the tool; what the last one left in env stays
NextRun ==
    /\ pc = "done"
    /\ run < MaxRuns
    /\ run' = run + 1
    /\ pc' = "idle"
    /\ stack' = <<>>
    /\ args' = NoArgs
    /\ cfg' = NoCfg
    /\ local' = NoLocal
    /\ calls' = <<>>
    /\ probe' = <<>>
    /\ result' = "running"
    /\ ret' = FALSE
    /\ vm_ip' = "none"
    /\ ssh_client' = "none"
    /\ idx' = 0
    /\ obs' = NoObs(env)
    /\ UNCHANGED env

----------------------------------------------------------------------------
(* VmManager: list, start, stop *)

\* Faulty variant of GcloudSimple: the exit status of gcloud is not tested
GcloudSimple_unchecked(at, op, failure) ==
    /\ pc = at
    /\ \E rc \in RC :
          /\ Log(Call(op, "", rc))
          /\ CASE rc \in {"ok", "fail"} -> Return
               [] OTHER -> Raise("Io")
    /\ probe' = <<>>
    /\ UNCHANGED <<run, args, cfg, local, env, ret, vm_ip, ssh_client, idx, obs>>

GcloudSimple(at, op, failure) ==
    /\ pc = at
    /\ \E rc \in RC :
          /\ Log(Call(op, "", rc))
          /\ CASE rc = "ok" -> Return
               [] rc = "fail" -> Raise(failure)
               [] OTHER -> Raise("Io")
    /\ probe' = <<>>
    /\ UNCHANGED <<run, args, cfg, local, env, ret, vm_ip, ssh_client, idx, obs>>

list == GcloudSimple("list", "gcloud_list_all", "Failed to list VMs")

start == GcloudSimple("start", "gcloud_start", "Failed to start VM")

stop == GcloudSimple("stop", "gcloud_stop", "Failed to stop VM")

----------------------------------------------------------------------------
(* VmManager::terminate *)

\* gcp.rs:94-103: the prompt, the line read and the test of the answer
terminate_prompt ==
    /\ pc = "terminate"
    /\ \/ /\ Raise("Io")                           \* flush or read_line failed
          /\ UNCHANGED obs
       \/ \E input \in Responses :
             /\ obs' = [obs EXCEPT !.input = input]
             /\ IF ~confirmed(input) THEN Return ELSE Step("terminate_confirmed")
    /\ probe' = <<>>
    /\ UNCHANGED <<run, args, cfg, local, env, calls, ret, vm_ip, ssh_client, idx>>

\* Faulty variant of terminate_confirmed: a failed destroy falls back to the delete
terminate_confirmed_fallback ==
    /\ pc = "terminate_confirmed"
    /\ IF env.tfstate # "none"
       THEN \E rc \in RC :
               CASE rc = "ok" ->
                       /\ Log(Call("tf_destroy", "", rc))
                       /\ Return
                       /\ env' = [ tfstate |-> "empty",
                                   vm |-> IF env.tfstate = "mine" THEN FALSE ELSE env.vm,
                                   workspace |-> IF env.tfstate = "mine" THEN {}
                                                 ELSE env.workspace ]
                 [] rc = "fail" ->
                       /\ calls' = calls \o <<Call("tf_destroy", "", rc),
                                              Call("gcloud_delete", "", "fail")>>
                       /\ Raise("Failed to delete VM")
                       /\ UNCHANGED env
                 [] OTHER -> Log(Call("tf_destroy", "", rc)) /\ Raise("Io") /\ UNCHANGED env
       ELSE \E rc \in RC :
               /\ rc = "ok" => env.vm
               /\ Log(Call("gcloud_delete", "", rc))
               /\ CASE rc = "ok" ->
                         /\ Return
                         /\ env' = [env EXCEPT !.vm = FALSE, !.workspace = {}]
                    [] rc = "fail" -> Raise("Failed to delete VM") /\ UNCHANGED env
                    [] OTHER -> Raise("Io") /\ UNCHANGED env
    /\ probe' = <<>>
    /\ UNCHANGED <<run, args, cfg, local, ret, vm_ip, ssh_client, idx, obs>>

\* gcp.rs:105-134: terraform destroy when the state file exists, gcloud delete otherwise
terminate_confirmed ==
    /\ pc = "terminate_confirmed"
    /\ IF env.tfstate # "none"
       THEN \E rc \in RC :
               /\ Log(Call("tf_destroy", "", rc))
               /\ CASE rc = "ok" ->
                         /\ Return
                         /\ env' = [ tfstate |-> "empty",
                                     vm |-> IF env.tfstate = "mine" THEN FALSE ELSE env.vm,
                                     workspace |-> IF env.tfstate = "mine" THEN {}
                                                   ELSE env.workspace ]
                    [] rc = "fail" -> Raise("TerraformFailed: destroy failed") /\ UNCHANGED env
                    [] OTHER -> Raise("Io") /\ UNCHANGED env
       ELSE \E rc \in RC :
               /\ rc = "ok" => env.vm              \* deleting a missing instance fails
               /\ Log(Call("gcloud_delete", "", rc))
               /\ CASE rc = "ok" ->
                         /\ Return
                         /\ env' = [env EXCEPT !.vm = FALSE, !.workspace = {}]
                    [] rc = "fail" -> Raise("Failed to delete VM") /\ UNCHANGED env
                    [] OTHER -> Raise("Io") /\ UNCHANGED env
    /\ probe' = <<>>
    /\ UNCHANGED <<run, args, cfg, local, ret, vm_ip, ssh_client, idx, obs>>

----------------------------------------------------------------------------
(* ssh.rs: SshClient *)

\* Faulty variant of SshClient: a non-zero exit is not turned into SshFailed
SshClient_unchecked(op, arg, onOk) ==
    IF ~cfg.ssh_key
    THEN Raise("SshKeyNotFound") /\ UNCHANGED calls
    ELSE \E rc \in RC :
            /\ Log([Call(op, arg, rc) EXCEPT !.to = ssh_client])
            /\ CASE rc \in {"ok", "fail"} -> onOk
                 [] OTHER -> Raise("Io")

\* Faulty variant of SshClient: the process is started without a look at the key
SshClient_keyless(op, arg, onOk) ==
    \E rc \in RC :
       /\ Log([Call(op, arg, rc) EXCEPT !.to = ssh_client])
       /\ CASE rc = "ok" -> onOk
            [] rc = "fail" -> Raise("SshFailed")
            [] OTHER -> Raise("Io")

\* execute, execute_streaming, copy_to_vm, copy_from_vm, interactive_session and
\* scp_with_prefix have one shape: the key is required before the process is
\* started, a non-zero exit is SshFailed
SshClient(op, arg, onOk) ==
    IF ~cfg.ssh_key
    THEN Raise("SshKeyNotFound") /\ UNCHANGED calls
    ELSE \E rc \in RC :
            /\ Log([Call(op, arg, rc) EXCEPT !.to = ssh_client])
            /\ CASE rc = "ok" -> onOk
                 [] rc = "fail" -> Raise("SshFailed")
                 [] OTHER -> Raise("Io")

----------------------------------------------------------------------------
(* VmManager::vm_exists and get_vm_ip *)

\* what a query returned, as calls records it
Returned(fn, value, rc) == Append(calls, Call(fn, value, rc))

\* gcp.rs:206-220: the name the terraform state records
vm_exists_terraform ==
    /\ pc = "vm_exists"
    /\ IF env.tfstate = "none"
       THEN Step("vm_exists_gcloud") /\ probe' = <<>> /\ UNCHANGED <<calls, ret>>
       ELSE \E rc \in RC :
               /\ rc = "ok" => env.tfstate \in {"mine", "other"}
               /\ probe' = <<Call("tf_output", "vm_name", rc)>>
               /\ CASE rc = "err" -> Raise("Io") /\ UNCHANGED <<calls, ret>>
                    [] rc = "ok" /\ env.tfstate = "mine" ->
                         /\ Return
                         /\ ret' = TRUE
                         /\ calls' = Returned("vm_exists", "", "true")
                    [] OTHER -> Step("vm_exists_gcloud") /\ UNCHANGED <<calls, ret>>
    /\ UNCHANGED <<run, args, cfg, local, env, vm_ip, ssh_client, idx, obs>>

\* Faulty variant of vm_exists_gcloud: an instance the inventory does not list is an error
vm_exists_gcloud_not_found ==
    /\ pc = "vm_exists_gcloud"
    /\ \E rc \in RC :
          /\ probe' = Append(probe, Call("gcloud_list_name",
                                         IF rc = "ok" /\ env.vm THEN "listed" ELSE "", rc))
          /\ IF rc = "err" THEN Raise("Io") /\ UNCHANGED <<calls, ret>>
             ELSE IF ~(rc = "ok" /\ env.vm) THEN Raise("VmNotFound") /\ UNCHANGED <<calls, ret>>
             ELSE /\ Return
                  /\ ret' = TRUE
                  /\ calls' = Returned("vm_exists", "", "true")
    /\ UNCHANGED <<run, args, cfg, local, env, vm_ip, ssh_client, idx, obs>>

\* gcp.rs:222-231: the cloud inventory filtered by name
vm_exists_gcloud ==
    /\ pc = "vm_exists_gcloud"
    /\ \E rc \in RC :
          /\ probe' = Append(probe, Call("gcloud_list_name",
                                         IF rc = "ok" /\ env.vm THEN "listed" ELSE "", rc))
          /\ IF rc = "err" THEN Raise("Io") /\ UNCHANGED <<calls, ret>>
             ELSE /\ Return
                  /\ ret' = (rc = "ok" /\ env.vm)
                  /\ calls' = Returned("vm_exists", "",
                                       IF rc = "ok" /\ env.vm THEN "true" ELSE "false")
    /\ UNCHANGED <<run, args, cfg, local, env, vm_ip, ssh_client, idx, obs>>

\* Faulty variant of get_vm_ip_terraform: the test for an empty address is missing
get_vm_ip_terraform_unfiltered ==
    /\ pc = "get_vm_ip"
    /\ IF env.tfstate = "none"
       THEN Step("get_vm_ip_gcloud") /\ probe' = <<>> /\ UNCHANGED <<calls, vm_ip>>
       ELSE \E rc \in RC \cup {"empty"} :
               /\ rc \in {"ok", "empty"} => env.tfstate \in {"mine", "other"}
               /\ probe' = <<Call("tf_output", "cloud_agent_ip", rc)>>
               /\ CASE rc = "err" -> Raise("Io") /\ UNCHANGED <<calls, vm_ip>>
                    [] rc \in {"ok", "empty"} ->
                         LET ip == IF rc = "empty" THEN ""
                                   ELSE IF env.tfstate = "mine" THEN "ip_mine" ELSE "ip_other"
                         IN  /\ Return
                             /\ vm_ip' = ip
                             /\ calls' = Returned("get_vm_ip", ip, "ok")
                    [] OTHER -> Step("get_vm_ip_gcloud") /\ UNCHANGED <<calls, vm_ip>>
    /\ UNCHANGED <<run, args, cfg, local, env, ret, ssh_client, idx, obs>>

\* gcp.rs:166-180: the address the terraform state records; "empty" is exit status 0
\* with nothing printed
get_vm_ip_terraform ==
    /\ pc = "get_vm_ip"
    /\ IF env.tfstate = "none"
       THEN Step("get_vm_ip_gcloud") /\ probe' = <<>> /\ UNCHANGED <<calls, vm_ip>>
       ELSE \E rc \in RC \cup {"empty"} :
               /\ rc \in {"ok", "empty"} => env.tfstate \in {"mine", "other"}
               /\ probe' = <<Call("tf_output", "cloud_agent_ip", rc)>>
               /\ CASE rc = "err" -> Raise("Io") /\ UNCHANGED <<calls, vm_ip>>
                    [] rc = "ok" ->
                         LET ip == IF env.tfstate = "mine" THEN "ip_mine" ELSE "ip_other"
                         IN  /\ Return
                             /\ vm_ip' = ip
                             /\ calls' = Returned("get_vm_ip", ip, "ok")
                    [] OTHER -> Step("get_vm_ip_gcloud") /\ UNCHANGED <<calls, vm_ip>>
    /\ UNCHANGED <<run, args, cfg, local, env, ret, ssh_client, idx, obs>>

\* gcp.rs:182-201: gcloud compute instances describe
get_vm_ip_gcloud ==
    /\ pc = "get_vm_ip_gcloud"
    /\ \E rc \in RC \cup {"empty"} :
          /\ rc \in {"ok", "empty"} => env.vm
          /\ probe' = Append(probe, Call("gcloud_describe", "", rc))
          /\ CASE rc = "err" -> Raise("Io") /\ UNCHANGED <<calls, vm_ip>>
               [] rc = "fail" -> Raise("VmNotFound") /\ UNCHANGED <<calls, vm_ip>>
               [] rc = "empty" ->
                    Raise("Could not determine VM IP address") /\ UNCHANGED <<calls, vm_ip>>
               [] OTHER ->
                    /\ Return
                    /\ vm_ip' = "ip_mine"
                    /\ calls' = Returned("get_vm_ip", "ip_mine", "ok")
    /\ UNCHANGED <<run, args, cfg, local, env, ret, ssh_client, idx, obs>>

----------------------------------------------------------------------------
(* VmManager::ssh and scp *)

ssh ==
    /\ pc = "ssh"
    /\ CallFn("get_vm_ip", "ssh_session")
    /\ probe' = <<>>
    /\ UNCHANGED <<run, args, cfg, local, env, calls, ret, vm_ip, ssh_client, idx, obs>>

\* gcp.rs:142: SshClient::new
ssh_new_client ==
    /\ pc = "ssh_session"
    /\ ssh_client' = vm_ip
    /\ Step("interactive_session")
    /\ probe' = <<>>
    /\ UNCHANGED <<run, args, cfg, local, env, calls, ret, vm_ip, idx, obs>>

interactive_session ==
    /\ pc = "interactive_session"
    /\ SshClient("ssh_interactive", "tmux", Return)
    /\ probe' = <<>>
    /\ UNCHANGED <<run, args, cfg, local, env, ret, vm_ip, ssh_client, idx, obs>>

scp ==
    /\ pc = "scp"
    /\ IF ~args.scp_args THEN Raise("Invalid arguments")
       ELSE CallFn("get_vm_ip", "scp_copy")
    /\ probe' = <<>>
    /\ UNCHANGED <<run, args, cfg, local, env, calls, ret, vm_ip, ssh_client, idx, obs>>

\* gcp.rs:159: SshClient::new
scp_new_client ==
    /\ pc = "scp_copy"
    /\ ssh_client' = vm_ip
    /\ Step("scp_with_prefix")
    /\ probe' = <<>>
    /\ UNCHANGED <<run, args, cfg, local, env, calls, ret, vm_ip, idx, obs>>

scp_with_prefix ==
    /\ pc = "scp_with_prefix"
    /\ SshClient("scp_prefix", "", Return)
    /\ probe' = <<>>
    /\ UNCHANGED <<run, args, cfg, local, env, ret, vm_ip, ssh_client, idx, obs>>

----------------------------------------------------------------------------
(* VmManager::generate_tfvars *)

\* utils.rs:39-43
Services == <<"https://api.ipify.org", "https://ifconfig.me/ip", "https://icanhazip.com">>

\* gcp.rs:315-319 and 372-375: generate_tfvars starts with get_allowed_ips, which
\* starts with detect_public_ipv4
generate_tfvars ==
    /\ pc = "generate_tfvars"
    /\ idx' = 1
    /\ probe' = <<>>
    /\ Step("detect_public_ipv4")
    /\ UNCHANGED <<run, args, cfg, local, env, calls, ret, vm_ip, ssh_client, obs>>

\* what an IP echo service answers: an address and a newline, an address followed
\* by a '.', or a blank line
IpReplies ==
    { <<"1", ".", "1", ".", "1", ".", "1", "\n">>,
      <<"1", ".", "1", ".", "1", ".", "1", ".", "\n">>,
      <<"\n">> }

Slash32 == <<"/", "3", "2">>

\* utils.rs:45-50: what one service answered (got: the request and the reading of its
\* body succeeded), and whether the loop returns on it
Reply(service, got, r) ==
    IF ~got THEN Call("ip_echo", service, "err")
    ELSE [Call("ip_echo", service,
               IF trim(r) # <<>> /\ is_valid_ipv4(trim(r)) THEN "ok" ELSE "invalid")
            EXCEPT !.out = r]

\* utils.rs:36-57: one turn of the loop over the services, or its end
detect_public_ipv4 ==
    /\ pc = "detect_public_ipv4"
    /\ IF idx > Len(Services)
       THEN Raise("IpDetectionFailed") /\ UNCHANGED <<calls, probe, idx>>
       ELSE \E got \in BOOLEAN, r \in IpReplies :
               LET reply == Reply(Services[idx], got, r)
               IN  /\ probe' = Append(probe, reply)
                   /\ IF reply.rc = "ok"
                      THEN /\ Step("get_ssh_config")
                           /\ calls' = Append(calls,
                                  [Call("detect_public_ipv4", Services[idx], "ok")
                                     EXCEPT !.out = trim(r) \o Slash32])
                           /\ UNCHANGED idx
                      ELSE Step("detect_public_ipv4") /\ idx' = idx + 1 /\ UNCHANGED calls
    /\ UNCHANGED <<run, args, cfg, local, env, ret, vm_ip, ssh_client, obs>>

\* gcp.rs:393-406: the public key beside the private key, read when it exists
get_ssh_config ==
    /\ pc = "get_ssh_config"
    /\ IF ~cfg.ssh_key
       THEN Step("write_tfvars") /\ UNCHANGED local
       ELSE \E e \in {"yes", "no"} :
               /\ local.pub_key \in {"unknown", e}
               /\ local' = [local EXCEPT !.pub_key = e]
               /\ \/ Step("write_tfvars")
                  \/ e = "yes" /\ Raise("Io")       \* read_to_string failed
    /\ probe' = <<>>
    /\ UNCHANGED <<run, args, cfg, env, calls, ret, vm_ip, ssh_client, idx, obs>>

\* gcp.rs:372-390: the allow-list get_allowed_ips returned to generate_tfvars, the
\* address detect_public_ipv4 returned first in it
allowed_ips ==
    LET d == {i \in 1..Len(calls) : calls[i].op = "detect_public_ipv4"}
    IN  <<calls[CHOOSE i \in d : \A j \in d : j <= i].out>>

\* Faulty variant of write_tfvars: the result of fs::write is dropped
write_tfvars_unchecked ==
    /\ pc = "write_tfvars"
    /\ \E rc \in {"ok", "err"} :
          /\ Log([Call("tfvars_write", "", rc) EXCEPT !.out = allowed_ips])
          /\ Return
    /\ probe' = <<>>
    /\ UNCHANGED <<run, args, cfg, local, env, ret, vm_ip, ssh_client, idx, obs>>

\* gcp.rs:365-368: fs::write of terraform.tfvars
write_tfvars ==
    /\ pc = "write_tfvars"
    /\ \E rc \in {"ok", "err"} :
          /\ Log([Call("tfvars_write", "", rc) EXCEPT !.out = allowed_ips])
          /\ IF rc = "ok" THEN Return ELSE Raise("Io")
    /\ probe' = <<>>
    /\ UNCHANGED <<run, args, cfg, local, env, ret, vm_ip, ssh_client, idx, obs>>

----------------------------------------------------------------------------
(* terraform apply, as apply_terraform and create_vm run it *)

\* an instance of the name that the state does not manage makes the apply fail
ApplyCanSucceed == env.tfstate = "mine" \/ ~env.vm

AfterApply ==
    [ tfstate |-> "mine", vm |-> TRUE,
      workspace |-> IF env.vm /\ env.tfstate = "mine" THEN env.workspace ELSE {} ]

TerraformApply(onOk) ==
    \E rc \in RC :
       /\ rc = "ok" => ApplyCanSucceed
       /\ Log(Call("tf_apply", "", rc))
       /\ CASE rc = "ok" -> onOk /\ env' = AfterApply
            [] rc = "fail" -> Raise("TerraformFailed: apply failed") /\ UNCHANGED env
            [] OTHER -> Raise("Io") /\ UNCHANGED env

\* Faulty variant of apply_terraform: the test for the state file is missing
apply_terraform_unguarded ==
    /\ pc = "apply_terraform"
    /\ CallFn("generate_tfvars", "apply_terraform_apply")
    /\ probe' = <<>>
    /\ UNCHANGED <<run, args, cfg, local, env, calls, ret, vm_ip, ssh_client, idx, obs>>

\* gcp.rs:235-246
apply_terraform ==
    /\ pc = "apply_terraform"
    /\ IF env.tfstate = "none"
       THEN Raise("No terraform state found. Create VM first with: ca <repo>")
       ELSE CallFn("generate_tfvars", "apply_terraform_apply")
    /\ probe' = <<>>
    /\ UNCHANGED <<run, args, cfg, local, env, calls, ret, vm_ip, ssh_client, idx, obs>>

\* gcp.rs:248-262
apply_terraform_apply ==
    /\ pc = "apply_terraform_apply"
    /\ TerraformApply(Return)
    /\ probe' = <<>>
    /\ UNCHANGED <<run, args, cfg, local, ret, vm_ip, ssh_client, idx, obs>>

----------------------------------------------------------------------------
(* VmManager::create_vm *)

\* cli.rs:140 passes force = true, gcp.rs:439 force = false
force == args.command = "create_vm"

\* gcp.rs:267: `!force && self.vm_exists().await?`, short-circuit
create_vm ==
    /\ pc = "create_vm"
    /\ IF force THEN CallFn("generate_tfvars", "create_vm_init")
       ELSE CallFn("vm_exists", "create_vm_checked")
    /\ obs' = [obs EXCEPT !.env0 = env]
    /\ probe' = <<>>
    /\ UNCHANGED <<run, args, cfg, local, env, calls, ret, vm_ip, ssh_client, idx>>

\* Faulty variant of create_vm_checked: `force || exists` written as `force && exists`,
\* so that an unforced create goes on although the VM exists
create_vm_checked_anyway ==
    /\ pc = "create_vm_checked"
    /\ IF ret /\ force
       THEN /\ Return
            /\ obs' = [obs EXCEPT !.create_exists = "true", !.create = "skipped"]
       ELSE /\ CallFn("generate_tfvars", "create_vm_init")
            /\ obs' = [obs EXCEPT !.create_exists = IF ret THEN "true" ELSE "false"]
    /\ probe' = <<>>
    /\ UNCHANGED <<run, args, cfg, local, env, calls, ret, vm_ip, ssh_client, idx>>

\* gcp.rs:267-275, after vm_exists returned
create_vm_checked ==
    /\ pc = "create_vm_checked"
    /\ IF ret
       THEN /\ Return
            /\ obs' = [obs EXCEPT !.create_exists = "true", !.create = "skipped"]
       ELSE /\ CallFn("generate_tfvars", "create_vm_init")
            /\ obs' = [obs EXCEPT !.create_exists = "false"]
    /\ probe' = <<>>
    /\ UNCHANGED <<run, args, cfg, local, env, calls, ret, vm_ip, ssh_client, idx>>

\* Faulty variant of create_vm_init: the exit status of terraform init is not tested
create_vm_init_unchecked ==
    /\ pc = "create_vm_init"
    /\ \E rc \in RC :
          /\ Log(Call("tf_init", "", rc))
          /\ CASE rc \in {"ok", "fail"} -> Step("create_vm_apply")
               [] OTHER -> Raise("Io")
    /\ probe' = <<>>
    /\ UNCHANGED <<run, args, cfg, local, env, ret, vm_ip, ssh_client, idx, obs>>

\* gcp.rs:277-287
create_vm_init ==
    /\ pc = "create_vm_init"
    /\ \E rc \in RC :
          /\ Log(Call("tf_init", "", rc))
          /\ CASE rc = "ok" -> Step("create_vm_apply")
               [] rc = "fail" -> Raise("TerraformFailed: init failed")
               [] OTHER -> Raise("Io")
    /\ probe' = <<>>
    /\ UNCHANGED <<run, args, cfg, local, env, ret, vm_ip, ssh_client, idx, obs>>

\* gcp.rs:289-301
create_vm_apply ==
    /\ pc = "create_vm_apply"
    /\ TerraformApply(CallFn("get_vm_ip", "create_vm_sleep"))
    /\ probe' = <<>>
    /\ UNCHANGED <<run, args, cfg, local, ret, vm_ip, ssh_client, idx, obs>>

\* Faulty variant of create_vm_sleep: create_vm returns without the sleep
create_vm_sleep_missing ==
    /\ pc = "create_vm_sleep"
    /\ Return
    /\ obs' = [obs EXCEPT !.create = "ran"]
    /\ probe' = <<>>
    /\ UNCHANGED <<run, args, cfg, local, env, calls, ret, vm_ip, ssh_client, idx>>

\* gcp.rs:302-311: the report and the sleep of 90 s
create_vm_sleep ==
    /\ pc = "create_vm_sleep"
    /\ Log(Call("sleep", "90", "ok"))
    /\ Return
    /\ obs' = [obs EXCEPT !.create = "ran"]
    /\ probe' = <<>>
    /\ UNCHANGED <<run, args, cfg, local, env, ret, vm_ip, ssh_client, idx>>

----------------------------------------------------------------------------
(* VmManager::full_deploy and deploy_repos *)

\* gcp.rs:432-438
full_deploy ==
    /\ pc = "full_deploy"
    /\ CallFn("vm_exists", "full_deploy_checked")
    /\ probe' = <<>>
    /\ UNCHANGED <<run, args, cfg, local, env, calls, ret, vm_ip, ssh_client, idx, obs>>

\* Faulty variant of full_deploy_checked: the test of vm_exists is inverted
full_deploy_checked_inverted ==
    /\ pc = "full_deploy_checked"
    /\ obs' = [obs EXCEPT !.full_exists = IF ret THEN "true" ELSE "false"]
    /\ IF ret THEN CallFn("create_vm", "deploy_repos") ELSE Step("deploy_repos")
    /\ probe' = <<>>
    /\ UNCHANGED <<run, args, cfg, local, env, calls, ret, vm_ip, ssh_client, idx>>

\* gcp.rs:438-445: create_vm(false) when vm_exists returned false, then deploy_repos
full_deploy_checked ==
    /\ pc = "full_deploy_checked"
    /\ obs' = [obs EXCEPT !.full_exists = IF ret THEN "true" ELSE "false"]
    /\ IF ~ret THEN CallFn("create_vm", "deploy_repos") ELSE Step("deploy_repos")
    /\ probe' = <<>>
    /\ UNCHANGED <<run, args, cfg, local, env, calls, ret, vm_ip, ssh_client, idx>>

\* gcp.rs:409-410
deploy_repos ==
    /\ pc = "deploy_repos"
    /\ CallFn("vm_exists", "deploy_repos_checked")
    /\ Log(Call("deploy_repos", "", "enter"))
    /\ probe' = <<>>
    /\ UNCHANGED <<run, args, cfg, local, env, ret, vm_ip, ssh_client, idx, obs>>

\* Faulty variant of deploy_repos_checked: the result of vm_exists is not tested
deploy_repos_checked_ignored ==
    /\ pc = "deploy_repos_checked"
    /\ obs' = [obs EXCEPT !.deploy_exists = IF ret THEN "true" ELSE "false"]
    /\ CallFn("get_vm_ip", "deploy_repos_client")
    /\ probe' = <<>>
    /\ UNCHANGED <<run, args, cfg, local, env, calls, ret, vm_ip, ssh_client, idx>>

\* gcp.rs:410-414
deploy_repos_checked ==
    /\ pc = "deploy_repos_checked"
    /\ obs' = [obs EXCEPT !.deploy_exists = IF ret THEN "true" ELSE "false"]
    /\ IF ~ret THEN Raise("VmNotFound") ELSE CallFn("get_vm_ip", "deploy_repos_client")
    /\ probe' = <<>>
    /\ UNCHANGED <<run, args, cfg, local, env, calls, ret, vm_ip, ssh_client, idx>>

\* gcp.rs:415-420: SshClient::new, then transfer_credentials unless skipped
deploy_repos_client ==
    /\ pc = "deploy_repos_client"
    /\ ssh_client' = vm_ip
    /\ IF ~args.skip_creds THEN CallFn("transfer_credentials", "deploy_repos_clone")
       ELSE Step("deploy_repos_clone")
    /\ probe' = <<>>
    /\ UNCHANGED <<run, args, cfg, local, env, calls, ret, vm_ip, idx, obs>>

\* gcp.rs:422-427: clone_repos unless the list is empty, then print_success_message
deploy_repos_clone ==
    /\ pc = "deploy_repos_clone"
    /\ IF args.repos # <<>> THEN CallFn("clone_repos", "print_success_message")
       ELSE Step("print_success_message")
    /\ probe' = <<>>
    /\ UNCHANGED <<run, args, cfg, local, env, calls, ret, vm_ip, ssh_client, idx, obs>>

----------------------------------------------------------------------------
(* VmManager::transfer_credentials *)

\* gcp.rs:455-456
transfer_credentials ==
    /\ pc = "transfer_credentials"
    /\ SshClient("ssh_mkdir", "", Step("transfer_git_auth"))
    /\ obs' = [obs EXCEPT !.creds = "started"]
    /\ probe' = <<>>
    /\ UNCHANGED <<run, args, cfg, local, env, ret, vm_ip, ssh_client, idx>>

\* gcp.rs:459-462 and 479-492: the private key when one is configured, else the
\* token when one is configured, else nothing
transfer_git_auth ==
    /\ pc = "transfer_git_auth"
    /\ IF cfg.ssh_key
       THEN SshClient("scp_key", "~/.ssh/id_ed25519", Step("transfer_pub_key"))
       ELSE IF cfg.github_token
            THEN SshClient("ssh_token", "", Step("transfer_agent_credentials"))
            ELSE Step("transfer_agent_credentials") /\ UNCHANGED calls
    /\ probe' = <<>>
    /\ UNCHANGED <<run, args, cfg, local, env, ret, vm_ip, ssh_client, idx, obs>>

\* gcp.rs:464-467: the public key when the file exists
transfer_pub_key ==
    /\ pc = "transfer_pub_key"
    /\ \E e \in {"yes", "no"} :
          /\ local.pub_key \in {"unknown", e}
          /\ local' = [local EXCEPT !.pub_key = e]
          /\ IF e = "yes"
             THEN SshClient("scp_pub", "~/.ssh/id_ed25519.pub", Step("transfer_key_config"))
             ELSE Step("transfer_key_config") /\ UNCHANGED calls
    /\ probe' = <<>>
    /\ UNCHANGED <<run, args, cfg, env, ret, vm_ip, ssh_client, idx, obs>>

\* gcp.rs:469-478
transfer_key_config ==
    /\ pc = "transfer_key_config"
    /\ SshClient("ssh_keycfg", "", Step("transfer_agent_credentials"))
    /\ probe' = <<>>
    /\ UNCHANGED <<run, args, cfg, local, env, ret, vm_ip, ssh_client, idx, obs>>

\* gcp.rs:501-509; home_dir() is Some here, check_logged_in found a file under it
transfer_agent_credentials ==
    /\ pc = "transfer_agent_credentials"
    /\ idx' = 1
    /\ Step("agent_credentials")
    /\ probe' = <<>>
    /\ UNCHANGED <<run, args, cfg, local, env, calls, ret, vm_ip, ssh_client, obs>>

\* gcp.rs:510-516, 526-532, 538-544: the three blocks, in the order auggie, claude,
\* codex: the file is staged and copied when it exists
agent_credentials_copy ==
    /\ pc = "agent_credentials"
    /\ IF idx > Len(list_agents)
       THEN Return /\ obs' = [obs EXCEPT !.creds = "ok"] /\ UNCHANGED <<calls, local, idx>>
       ELSE \E e \in {"yes", "no"} :
               /\ UNCHANGED obs
               /\ local.creds[list_agents[idx]] \in {"unknown", e}
               /\ local' = [local EXCEPT !.creds[list_agents[idx]] = e]
               /\ IF e = "no"
                  THEN Step("agent_credentials") /\ idx' = idx + 1 /\ UNCHANGED calls
                  ELSE /\ UNCHANGED idx
                       /\ \/ Raise("Io") /\ UNCHANGED calls   \* NamedTempFile::new or fs::copy
                          \/ SshClient("scp_cred", list_agents[idx],
                                       Step("agent_credentials_install"))
    /\ probe' = <<>>
    /\ UNCHANGED <<run, args, cfg, env, ret, vm_ip, ssh_client>>

\* gcp.rs:517-521, 533, 545-549: the remote command that puts the copied file in place
agent_credentials_install ==
    /\ pc = "agent_credentials_install"
    /\ SshClient("ssh_cred", list_agents[idx], Step("agent_credentials"))
    /\ idx' = IF pc' = "agent_credentials" THEN idx + 1 ELSE idx
    /\ probe' = <<>>
    /\ UNCHANGED <<run, args, cfg, local, env, ret, vm_ip, ssh_client, obs>>

----------------------------------------------------------------------------
(* VmManager::clone_repos and print_success_message *)

\* gcp.rs:562-563: the result of the chmod is dropped by .ok()
clone_repos ==
    /\ pc = "clone_repos"
    /\ IF ~cfg.ssh_key THEN UNCHANGED calls
       ELSE \E rc \in {"ok", "fail"} :
               Log([Call("ssh_chmod_ws", "", rc) EXCEPT !.to = ssh_client])
    /\ idx' = 1
    /\ Step("clone_loop")
    /\ probe' = <<>>
    /\ UNCHANGED <<run, args, cfg, local, env, ret, vm_ip, ssh_client, obs>>

\* Faulty variant of CloneOrPull: the command has no test for the directory
CloneOrPull_clone(name) == "clone"

\* what `if [ -d name ]; then cd name && git pull; else git clone url name; fi` runs
CloneOrPull(name) == IF name \in env.workspace THEN "pull" ELSE "clone"

\* Faulty variant of clone_loop: a failed command is logged and the loop goes on
clone_loop_continue ==
    /\ pc = "clone_loop"
    /\ IF idx > Len(args.repos)
       THEN Return /\ UNCHANGED <<calls, env, idx>>
       ELSE LET url == args.repos[idx]
                name == extract_repo_name(url)
            IN  IF ~name[1]
                THEN Raise("InvalidRepoUrl") /\ UNCHANGED <<calls, env, idx>>
                ELSE IF ~cfg.ssh_key
                THEN Raise("SshKeyNotFound") /\ UNCHANGED <<calls, env, idx>>
                ELSE \E rc \in RC :
                        /\ Log([Call("ssh_clone", CloneOrPull(name[2]), rc)
                                  EXCEPT !.repo = url, !.to = ssh_client])
                        /\ Step("clone_loop")
                        /\ idx' = idx + 1
                        /\ IF rc = "ok"
                           THEN env' = [env EXCEPT !.workspace = @ \cup {name[2]}]
                           ELSE UNCHANGED env
    /\ probe' = <<>>
    /\ UNCHANGED <<run, args, cfg, local, ret, vm_ip, ssh_client, obs>>

\* gcp.rs:565-585: one turn of the loop over repos, or its end
clone_loop ==
    /\ pc = "clone_loop"
    /\ IF idx > Len(args.repos)
       THEN Return /\ UNCHANGED <<calls, env, idx>>
       ELSE LET url == args.repos[idx]
                name == extract_repo_name(url)
            IN  IF ~name[1]
                THEN Raise("InvalidRepoUrl") /\ UNCHANGED <<calls, env, idx>>
                ELSE IF ~cfg.ssh_key
                THEN Raise("SshKeyNotFound") /\ UNCHANGED <<calls, env, idx>>
                ELSE \E rc \in RC :
                        /\ Log([Call("ssh_clone", CloneOrPull(name[2]), rc)
                                  EXCEPT !.repo = url, !.to = ssh_client])
                        /\ CASE rc = "ok" ->
                                  /\ Step("clone_loop")
                                  /\ idx' = idx + 1
                                  /\ env' = [env EXCEPT !.workspace = @ \cup {name[2]}]
                             [] rc = "fail" -> Raise("SshFailed") /\ UNCHANGED <<env, idx>>
                             [] OTHER -> Raise("Io") /\ UNCHANGED <<env, idx>>
    /\ probe' = <<>>
    /\ UNCHANGED <<run, args, cfg, local, ret, vm_ip, ssh_client, obs>>

\* gcp.rs:589-596: the listing is printed only `if let Ok`, then get_vm_ip
print_success_message ==
    /\ pc = "print_success_message"
    /\ IF ~cfg.ssh_key THEN UNCHANGED calls
       ELSE \E rc \in {"ok", "fail"} :
               Log([Call("ssh_ls", "/workspace/", rc) EXCEPT !.to = ssh_client])
    /\ CallFn("get_vm_ip", "print_ready")
    /\ probe' = <<>>
    /\ UNCHANGED <<run, args, cfg, local, env, ret, vm_ip, ssh_client, idx, obs>>

\* gcp.rs:598-624: the CLOUD AGENT READY report
print_ready ==
    /\ pc = "print_ready"
    /\ obs' = [obs EXCEPT !.ready = TRUE]
    /\ Return
    /\ probe' = <<>>
    /\ UNCHANGED <<run, args, cfg, local, env, calls, ret, vm_ip, ssh_client, idx>>

----------------------------------------------------------------------------

Next ==
    \/ Invoke \/ from_args \/ AgentManager_new \/ check_prerequisites
    \/ detect_current_repo \/ execute_match \/ execute_ok \/ NextRun
    \/ list \/ start \/ stop
    \/ terminate_prompt \/ terminate_confirmed
    \/ vm_exists_terraform \/ vm_exists_gcloud
    \/ get_vm_ip_terraform \/ get_vm_ip_gcloud
    \/ ssh \/ ssh_new_client \/ interactive_session
    \/ scp \/ scp_new_client \/ scp_with_prefix
    \/ generate_tfvars \/ detect_public_ipv4 \/ get_ssh_config \/ write_tfvars
    \/ apply_terraform \/ apply_terraform_apply
    \/ create_vm \/ create_vm_checked \/ create_vm_init \/ create_vm_apply \/ create_vm_sleep
    \/ full_deploy \/ full_deploy_checked
    \/ deploy_repos \/ deploy_repos_checked \/ deploy_repos_client \/ deploy_repos_clone
    \/ transfer_credentials \/ transfer_git_auth \/ transfer_pub_key \/ transfer_key_config
    \/ transfer_agent_credentials \/ agent_credentials_copy \/ agent_credentials_install
    \/ clone_repos \/ clone_loop \/ print_success_message \/ print_ready

Spec == Init /\ [][Next]_vars

----------------------------------------------------------------------------
(* Functions applied on their own: one call, its input drawn by FnInit *)

\* the operations of SshClient
SshClientOps ==
    { "execute", "execute_streaming", "copy_to_vm", "copy_from_vm",
      "interactive_session", "scp_with_prefix" }

FnEnv == [tfstate |-> "mine", vm |-> TRUE, workspace |-> {}]

FnStart(call) ==
    /\ run = 1
    /\ pc = "fn"
    /\ stack = <<>>
    /\ args = call
    /\ local = NoLocal
    /\ env = FnEnv
    /\ calls = <<>>
    /\ probe = <<>>
    /\ result = "running"
    /\ ret = FALSE
    /\ vm_ip = "ip_mine"
    /\ ssh_client = "ip_mine"
    /\ idx = 0
    /\ obs = NoObs(FnEnv)

\* the sequences over S of length n at most
SeqsUpTo(S, n) == UNION {[1..k -> S] : k \in 0..n}

\* jane_doe
JaneDoe == <<"j", "a", "n", "e", "_", "d", "o", "e">>

\* owners as derive_owner returns them, and some with the '-' it never leaves
Owners == SeqsUpTo({"a", "_", "-"}, MaxOwnerLen) \cup {JaneDoe}

\* the pieces URLs are put together from
UrlTokens ==
    { GitAt, Https, Http, GitSuffix, <<"g", "i", "t">>, <<"h">>, <<"/">>, <<":">> }

RECURSIVE Flatten(_)
Flatten(ss) == IF ss = <<>> THEN <<>> ELSE Head(ss) \o Flatten(Tail(ss))

UrlInputs ==
    {Flatten(ts) : ts \in SeqsUpTo(UrlTokens, MaxUrlTokens)}
       \cup {UrlSsh, UrlHttps, UrlNoName, UrlInvalid, UrlNoScheme}

\* identifiers given to --agent
AgentInputs == AgentArgs \cup {"", "Claude", "codex2", "gemini"}

\* the fields the strings given to is_valid_ipv4 are put together from
IpFields ==
    { <<>>, <<"1">>, <<"0", "8">>, <<"2", "5", "5">>, <<"2", "5", "6">>, <<"a">>,
      <<"+", "1">>, <<"-", "1">> }

RECURSIVE JoinDots(_)
JoinDots(fs) ==
    IF fs = <<>> THEN <<>>
    ELSE IF Len(fs) = 1 THEN fs[1]
    ELSE fs[1] \o <<".">> \o JoinDots(Tail(fs))

\* utils.rs:130-133: the strings of test_is_valid_ipv4
Ip192 == <<"1", "9", "2", ".", "1", "6", "8", ".", "1", ".", "1">>

Ip8888 == <<"8", ".", "8", ".", "8", ".", "8">>

Ip256 == <<"2", "5", "6", ".", "1", ".", "1", ".", "1">>

IpNotAnIp ==
    <<"n", "o", "t", ".", "a", "n", ".", "i", "p", ".", "a", "d", "d", "r", "e", "s", "s">>

IpInputs ==
    {JoinDots(fs) : fs \in SeqsUpTo(IpFields, MaxIpFields)}
       \cup {Ip192, Ip8888, Ip256, IpNotAnIp}

FnInit ==
    \/ /\ \E ip \in IpInputs : FnStart([fn |-> "is_valid_ipv4", input |-> ip])
       /\ cfg = NoCfg
    \/ /\ \E u \in UrlInputs : FnStart([fn |-> "validate_repo_url", input |-> u])
       /\ cfg = NoCfg
    \/ /\ \E u \in UrlInputs : FnStart([fn |-> "extract_repo_name", input |-> u])
       /\ cfg = NoCfg
    \/ /\ \E o \in Owners : FnStart([fn |-> "Config::from_args", input |-> o])
       /\ cfg = NoCfg
    \/ /\ \E a \in AgentInputs : FnStart([fn |-> "AgentManager::new", input |-> a])
       /\ cfg = NoCfg
    \/ /\ \E op \in SshClientOps : FnStart([fn |-> "SshClient", input |-> op])
       /\ cfg \in [ssh_key : BOOLEAN, github_token : BOOLEAN]

\* one operation of SshClient on a client for vm_ip
fn_SshClient ==
    /\ pc = "fn" /\ args.fn = "SshClient"
    /\ SshClient(args.input, "", Finish)
    /\ UNCHANGED <<run, args, cfg, local, env, probe, ret, vm_ip, ssh_client, idx, obs>>

fn_AgentManager_new ==
    /\ pc = "fn" /\ args.fn = "AgentManager::new"
    /\ result' = AgentManager_lookup(args.input)
    /\ pc' = "done"
    /\ UNCHANGED <<run, stack, args, cfg, local, env, calls, probe, ret, vm_ip, ssh_client,
                   idx, obs>>

\* config.rs:73-76: the names Config::from_args derives from owner
fn_from_args_names ==
    /\ pc = "fn" /\ args.fn = "Config::from_args"
    /\ result' = [ owner |-> args.input, vm_name |-> derive_vm_name(args.input),
                   ssh_username |-> ssh_username(args.input) ]
    /\ pc' = "done"
    /\ UNCHANGED <<run, stack, args, cfg, local, env, calls, probe, ret, vm_ip, ssh_client,
                   idx, obs>>

fn_validate_repo_url ==
    /\ pc = "fn" /\ args.fn = "validate_repo_url"
    /\ result' = validate_repo_url(args.input)
    /\ pc' = "done"
    /\ UNCHANGED <<run, stack, args, cfg, local, env, calls, probe, ret, vm_ip, ssh_client,
                   idx, obs>>

fn_extract_repo_name ==
    /\ pc = "fn" /\ args.fn = "extract_repo_name"
    /\ result' = extract_repo_name(args.input)
    /\ pc' = "done"
    /\ UNCHANGED <<run, stack, args, cfg, local, env, calls, probe, ret, vm_ip, ssh_client,
                   idx, obs>>

fn_is_valid_ipv4 ==
    /\ pc = "fn" /\ args.fn = "is_valid_ipv4"
    /\ result' = is_valid_ipv4(args.input)
    /\ pc' = "done"
    /\ UNCHANGED <<run, stack, args, cfg, local, env, calls, probe, ret, vm_ip, ssh_client,
                   idx, obs>>

FnNext ==
    \/ fn_is_valid_ipv4
    \/ fn_validate_repo_url
    \/ fn_extract_repo_name
    \/ fn_from_args_names
    \/ fn_AgentManager_new
    \/ fn_SshClient

FnSpec == FnInit /\ [][FnNext]_vars

----------------------------------------------------------------------------
(* Properties *)

Idx == 1..Len(calls)

Ended == pc = "done"

Failed == Ended /\ result # "ok"

\* the actions C1 lists: the tfvars write, terraform init/apply/destroy, gcloud
\* start/stop/delete, ssh and scp
InfraOps == MutatingOps \cup RemoteOps

\* the remote commands of clone_repos
CloneOps == {"ssh_chmod_ws", "ssh_clone"}

\* the calls of a full create
CreateOps == {"tfvars_write", "tf_init", "tf_apply"}

IssuedAny(ops) == \E i \in Idx : calls[i].op \in ops

\* C1: no infrastructure or remote action is issued before check_prerequisites has
\* succeeded, and an invocation whose check failed ends in error having issued none.
C1_PrerequisitesFirst ==
    /\ IssuedAny(InfraOps) => obs.prereq = "ok"
    /\ obs.prereq = "failed" => Failed /\ result = "AgentNotLoggedIn" /\ ~IssuedAny(InfraOps)
    /\ pc \notin {"idle", "from_args", "agent_new", "check_prerequisites", "done"}
          => obs.prereq = "ok"

C1_Witness ==
    /\ obs.prereq = "ok"
    /\ Issued("tfvars_write") /\ Issued("tf_apply") /\ Issued("ssh_mkdir")

\* C2: in deploy_repos the existence check and the address lookup come before every
\* credential-transfer step, every credential-transfer step comes before every
\* clone-or-pull command, and when a credential-transfer step fails the deployment
\* ends in error without a clone-or-pull command.
C2_DeployOrder ==
    /\ \A i \in Idx : calls[i].op \in CredOps \cup CloneOps =>
          \E d \in 1..i :
             /\ calls[d].op = "deploy_repos"
             /\ \E e \in (d + 1)..i :
                   /\ calls[e].op = "vm_exists" /\ calls[e].rc = "true"
                   /\ \E g \in (e + 1)..(i - 1) :
                         calls[g].op = "get_vm_ip" /\ calls[g].rc = "ok"
    /\ \A i \in Idx : calls[i].op \in CredOps =>
          \A j \in 1..i : calls[j].op \notin CloneOps
    /\ (\E i \in Idx : calls[i].op \in CredOps /\ calls[i].rc # "ok")
          => Failed /\ ~IssuedAny(CloneOps)
    /\ obs.creds = "started" /\ Ended => Failed /\ ~IssuedAny(CloneOps)
    /\ IssuedAny(CloneOps) => obs.creds = "ok" \/ args.skip_creds

C2_Witness ==
    /\ obs.creds = "ok"
    /\ IssuedOk("ssh_cred")
    /\ IssuedOk("ssh_clone")

\* C3 as claimed: in a full deploy, when the existence query reports the VM absent
\* the full create (tfvars, init, apply) is run before any credential transfer or
\* cloning; when it reports the VM present no tfvars is written and no terraform
\* init or apply is issued.
CreatedBefore(i) ==
    \E a \in 1..i :
       /\ calls[a].op = "tfvars_write" /\ calls[a].rc = "ok"
       /\ \E b \in (a + 1)..i :
             /\ calls[b].op = "tf_init" /\ calls[b].rc = "ok"
             /\ \E c \in (b + 1)..(i - 1) :
                   calls[c].op = "tf_apply" /\ calls[c].rc = "ok"

C3_Original ==
    args.command = "full" =>
       /\ obs.full_exists = "false" =>
             \A i \in Idx : calls[i].op \in CredOps \cup CloneOps => CreatedBefore(i)
       /\ obs.full_exists = "true" => ~IssuedAny(CreateOps)

\* C3 amended: the create is run before any credential transfer or cloning when the
\* existence query of full_deploy and the one create_vm(false) repeats both report
\* the VM absent; when the repeated query reports it present, or the first one does,
\* no tfvars is written and no terraform init or apply is issued.
C3_CreateWhenAbsent ==
    args.command = "full" =>
       /\ obs.full_exists = "false" /\ obs.create_exists = "false" =>
             \A i \in Idx : calls[i].op \in CredOps \cup CloneOps => CreatedBefore(i)
       /\ obs.full_exists = "false" /\ pc \in {"deploy_repos", "deploy_repos_checked"}
             => obs.create_exists # "none"
       /\ obs.full_exists = "true" \/ obs.create_exists = "true" => ~IssuedAny(CreateOps)

C3_Witness ==
    /\ args.command = "full"
    /\ obs.full_exists = "false"
    /\ obs.create = "ran"
    /\ IssuedOk("ssh_clone")

\* C4: the deploy sub-action never writes tfvars nor runs terraform init or apply,
\* and when its existence check reports the VM absent it ends at once with
\* VmNotFound, having issued no remote command or file copy.
C4_DeployNeverCreates ==
    args.command = "deploy" =>
       /\ ~IssuedAny(CreateOps)
       /\ obs.deploy_exists = "false" =>
             /\ Failed /\ result = "VmNotFound"
             /\ ~IssuedAny(RemoteOps)
             /\ calls[Len(calls)].op = "vm_exists"

C4_Witness ==
    /\ args.command = "deploy"
    /\ obs.deploy_exists = "false"
    /\ ~env.vm
    /\ Ended

\* C5: create_vm(false) on a VM its existence check finds returns Ok without a
\* tfvars write, terraform init or apply, or the settle wait, and leaves the terraform
\* state and the instance as they were, however often it is repeated.
C5_UnforcedCreateIdempotent ==
    obs.create_exists = "true" =>
       /\ ~IssuedAny(CreateOps \cup {"sleep"})
       /\ env.tfstate = obs.env0.tfstate /\ env.vm = obs.env0.vm
       /\ pc = "deploy_repos" => env = obs.env0 /\ result = "running"
       /\ obs.create = "skipped"

C5_Witness ==
    /\ run = 2
    /\ obs.create_exists = "true"
    /\ pc = "deploy_repos"
    /\ env.tfstate = "mine"

\* commands that run create_vm
CreateCommands == {"create_vm", "full"}

LastCall == calls[Len(calls)]

\* C6: during create, terraform apply is issued only after terraform init has
\* succeeded; an init that exits non-zero ends the invocation with TerraformFailed
\* "init failed" and no apply; an apply that exits non-zero ends it with
\* TerraformFailed "apply failed"; in both cases the failed command is the last thing
\* done: no address lookup, no sleep, no remote command.
C6_InitThenApply ==
    args.command \in CreateCommands =>
       /\ \A j \in Idx : calls[j].op = "tf_apply" =>
             \E i \in 1..(j - 1) : calls[i].op = "tf_init" /\ calls[i].rc = "ok"
       /\ \A i \in Idx : calls[i].op = "tf_init" /\ calls[i].rc = "fail" =>
             /\ Failed /\ result = "TerraformFailed: init failed"
             /\ i = Len(calls) /\ probe = <<>>
             /\ ~Issued("tf_apply")
       /\ \A i \in Idx : calls[i].op = "tf_apply" /\ calls[i].rc = "fail" =>
             /\ Failed /\ result = "TerraformFailed: apply failed"
             /\ i = Len(calls) /\ probe = <<>>

C6_Witness ==
    /\ args.command = "full"
    /\ IssuedOk("tf_init")
    /\ LastCall.op = "tf_apply" /\ LastCall.rc = "fail"
    /\ Failed

\* C7: after a terraform apply of create_vm that succeeded, no remote command or
\* file copy is issued before the sleep of 90 s, and create_vm does not return Ok
\* without it.
C7_SettleBeforeRemote ==
    /\ \A i \in Idx : calls[i].op = "tf_apply" /\ calls[i].rc = "ok" =>
          \A j \in (i + 1)..Len(calls) : calls[j].op \in RemoteOps =>
             \E k \in (i + 1)..(j - 1) : calls[k].op = "sleep" /\ calls[k].arg = "90"
    /\ obs.create = "ran" => IssuedOk("tf_apply") /\ Issued("sleep")
    /\ \A k \in Idx : calls[k].op = "sleep" =>
          \E i \in 1..(k - 1) : calls[i].op = "tf_apply" /\ calls[i].rc = "ok"

C7_Witness ==
    /\ IssuedOk("tf_apply")
    /\ Issued("sleep")
    /\ IssuedOk("ssh_mkdir")

NoStateError == "No terraform state found. Create VM first with: ca <repo>"

\* C8: the tf command never runs terraform init; without a state file it ends with
\* the error that points at the create path, having written no tfvars and run no
\* terraform command; with a state file terraform apply is run only after the tfvars
\* have been written, and it ends Ok only after both.
C8_ReapplyNeedsState ==
    args.command = "tf" =>
       /\ ~Issued("tf_init")
       /\ obs.env0.tfstate = "none" =>
             /\ ~IssuedAny(CreateOps \cup {"tf_destroy"})
             /\ pc \in {"dispatch", "apply_terraform", "done"} \/ obs.prereq # "ok"
             /\ Ended /\ obs.prereq = "ok" => result = NoStateError
       /\ result = NoStateError => obs.env0.tfstate = "none"
       /\ \A j \in Idx : calls[j].op = "tf_apply" =>
             \E i \in 1..(j - 1) : calls[i].op = "tfvars_write" /\ calls[i].rc = "ok"
       /\ Ended /\ result = "ok" => IssuedOk("tfvars_write") /\ IssuedOk("tf_apply")

C8_Witness ==
    /\ args.command = "tf"
    /\ obs.env0.tfstate = "mine"
    /\ Ended /\ result = "ok"
    /\ IssuedOk("tf_apply")

\* the lines that answer "y" to the prompt `Are you sure? [y/N]`
Affirmative == { <<"y", "\n">>, <<"Y", "\n">>, <<" ", "y", " ", "\n">> }

Destructive == {"tf_destroy", "gcloud_delete"}

\* C9: terminate with an answer that is not affirmative issues neither terraform
\* destroy nor gcloud delete, leaves the terraform state and the instance as they
\* were, and returns Ok.
C9_DeclinedTerminate ==
    args.command = "terminate" /\ obs.input # NoInput /\ obs.input \notin Affirmative =>
       /\ ~IssuedAny(Destructive)
       /\ env = obs.env0
       /\ pc \in {"exit", "done"}
       /\ Ended => result = "ok"

C9_Witness ==
    /\ args.command = "terminate"
    /\ obs.input = <<"y", "e", "s", "\n">>
    /\ obs.env0.vm /\ env.vm
    /\ Ended /\ result = "ok"

\* C10: a confirmed terminate issues exactly one destructive command: terraform
\* destroy when the state file exists and gcloud delete when it does not; a destroy
\* that exits non-zero ends the invocation with TerraformFailed "destroy failed" and
\* no gcloud delete.
C10_OneDestructivePath ==
    args.command = "terminate" /\ obs.input \in Affirmative =>
       /\ Cardinality({i \in Idx : calls[i].op \in Destructive})
             = IF pc = "terminate_confirmed" THEN 0 ELSE 1
       /\ Issued("tf_destroy") => obs.env0.tfstate # "none"
       /\ Issued("gcloud_delete") => obs.env0.tfstate = "none"
       /\ \A i \in Idx : calls[i].op = "tf_destroy" /\ calls[i].rc = "fail" =>
             Failed /\ result = "TerraformFailed: destroy failed" /\ env = obs.env0
       /\ \A i \in Idx : calls[i].op = "gcloud_delete" /\ calls[i].rc = "fail" =>
             Failed /\ result = "Failed to delete VM" /\ env = obs.env0

C10_Witness ==
    /\ args.command = "terminate"
    /\ obs.input = <<"Y", "\n">>
    /\ obs.env0.tfstate = "mine"
    /\ LastCall.op = "tf_destroy" /\ LastCall.rc = "fail"
    /\ Ended

\* the directory a clone-or-pull command is about
RepoName(url) == extract_repo_name(url)[2]

\* C11: every clone-or-pull command issued for a repository whose directory is in the
\* workspace runs the pull and never the clone, and leaves the set of directories as
\* it was, whether it succeeds or not; the clone is run only for a directory that is
\* not there.
C11_PullWhenPresent ==
    [][ Len(calls') = Len(calls) + 1 /\ calls'[Len(calls')].op = "ssh_clone" =>
          LET c == calls'[Len(calls')]
              name == RepoName(c.repo)
          IN  /\ name \in env.workspace =>
                    c.arg = "pull" /\ env'.workspace = env.workspace
              /\ name \notin env.workspace => c.arg = "clone"
              /\ c.rc = "ok" => name \in env'.workspace
      ]_vars

C11_Witness ==
    /\ run = 2
    /\ obs.env0.workspace # {}
    /\ \E i \in Idx : calls[i].op = "ssh_clone" /\ calls[i].arg = "pull" /\ calls[i].rc = "ok"
    /\ Ended /\ result = "ok"
    /\ env.workspace = obs.env0.workspace

\* no remote command or file copy that was started has failed
NoRemoteFailure == \A i \in Idx : calls[i].op \in RemoteOps => calls[i].rc = "ok"

\* transfer_credentials was entered and the invocation has ended without a failed
\* remote command and without a local I/O error
TransferUndisturbed == obs.creds # "none" /\ Ended /\ NoRemoteFailure /\ result # "Io"

Transferred(a) ==
    \E i \in Idx :
       /\ calls[i].op = "scp_cred" /\ calls[i].arg = a /\ calls[i].rc = "ok"
       /\ \E j \in (i + 1)..Len(calls) :
             calls[j].op = "ssh_cred" /\ calls[j].arg = a /\ calls[j].rc = "ok"

\* C12: with a key or a token configured, a credential transfer that no failing
\* remote command or local I/O error disturbed has copied and installed the
\* credential file of every agent that has one locally, whichever agent is selected.
C12_AllPresentAgentsTransferred ==
    (cfg.ssh_key \/ cfg.github_token) /\ TransferUndisturbed =>
       \A a \in Registry : local.creds[a] = "yes" => Transferred(a)

\* C13: with no key and a token configured, a credential transfer that no failing
\* remote command or local I/O error disturbed has run the command that stores the
\* token URL and sets the commit identity.
C13_TokenHelperConfigured ==
    ~cfg.ssh_key /\ cfg.github_token /\ TransferUndisturbed => IssuedOk("ssh_token")

\* C14: an operation of SshClient on a configuration without a key returns
\* SshKeyNotFound and starts no ssh or scp process; with a key the process is started.
C14_KeyBeforeProcess ==
    args.fn = "SshClient" /\ pc = "done" =>
       IF cfg.ssh_key
       THEN Len(calls) = 1 /\ calls[1].op = args.input /\ result # "SshKeyNotFound"
       ELSE calls = <<>> /\ result = "SshKeyNotFound"

C14_Witness ==
    /\ args.fn = "SshClient" /\ args.input = "copy_to_vm"
    /\ ~cfg.ssh_key
    /\ pc = "done" /\ result = "SshKeyNotFound"

\* the elements of a list written with a separator between them
RECURSIVE Join(_, _)
Join(items, sep) ==
    IF items = <<>> THEN ""
    ELSE IF Len(items) = 1 THEN items[1]
    ELSE items[1] \o sep \o Join(Tail(items), sep)

\* C15: AgentManager::new succeeds for exactly the identifiers list_agents enumerates,
\* and for any other returns AgentNotFound with that identifier and with the
\* enumeration of list_agents as the list of valid ones.
C15_LookupMatchesEnumeration ==
    args.fn = "AgentManager::new" /\ pc = "done" =>
       IF \E i \in 1..Len(list_agents) : list_agents[i] = args.input
       THEN result = <<"Ok", args.input>>
       ELSE result = <<"AgentNotFound", args.input, Join(list_agents, ", ")>>

C15_Witness ==
    /\ args.fn = "AgentManager::new" /\ args.input = "invalid-agent"
    /\ pc = "done"
    /\ result = <<"AgentNotFound", "invalid-agent", "auggie, claude, codex">>

\* C16: no clone-or-pull command is issued for a URL of the command line that
\* validate_repo_url rejects, and an invocation given such a URL does not end Ok.
C16_UrlsValidated ==
    args.command \in {"deploy", "full"} =>
       /\ \A i \in Idx : calls[i].op = "ssh_clone" => validate_repo_url(calls[i].repo)[1]
       /\ Ended /\ result = "ok" =>
             \A k \in 1..Len(args.repos) : validate_repo_url(args.repos[k])[1]

\* outcomes that are failures of a subprocess, a request or a remote command
FailedRc == {"fail", "err", "invalid"}

\* every failed entry of a log that is not excepted is the last one, of an invocation
\* that ended in error
FailuresEnd(log, Excepted(_)) ==
    \A i \in 1..Len(log) :
       log[i].rc \in FailedRc /\ ~Excepted(log[i]) => Failed /\ i = Len(log)

\* the failures C17 excepts
ExceptedAsClaimed(c) == c.op \in {"ip_echo", "ssh_chmod_ws"}

\* the failures the code goes on after
ExceptedByCode(c) ==
    \/ c.op \in {"ip_echo", "ssh_chmod_ws", "ssh_ls"}
    \/ c.op = "tf_output" /\ c.rc = "fail"
    \/ c.op = "gcloud_list_name" /\ c.rc = "fail"

\* C17 as claimed: every failing subprocess, request or remote command other than an
\* IP echo service and the chmod of the workspace ends the invocation in error.
C17_Original == FailuresEnd(calls, ExceptedAsClaimed) /\ FailuresEnd(probe, ExceptedAsClaimed)

\* C17 amended: every failing subprocess, request or remote command ends the
\* invocation in error, except an IP echo service, the chmod of the workspace, the
\* listing of the workspace in the success report, a non-zero exit of terraform
\* output in vm_exists and get_vm_ip, and a non-zero exit of gcloud instances list
\* in vm_exists.
C17_FailuresEndTheRun ==
    FailuresEnd(calls, ExceptedByCode) /\ FailuresEnd(probe, ExceptedByCode)

C17_Witness ==
    /\ \E i \in Idx : calls[i].op = "ssh_chmod_ws" /\ calls[i].rc = "fail"
    /\ LastCall.op = "ssh_clone" /\ LastCall.rc = "fail"
    /\ Failed /\ result = "SshFailed"

\* C18: in the Config built from an owner, ssh_username is the owner with '-' in the
\* place of every '_', and vm_name is ssh_username followed by -cloud-agent.
C18_NamesFromOwner ==
    args.fn = "Config::from_args" /\ pc = "done" =>
       LET owner == args.input
           user == result.ssh_username
       IN  /\ Len(user) = Len(owner)
           /\ \A i \in 1..Len(owner) : user[i] = IF owner[i] = "_" THEN "-" ELSE owner[i]
           /\ Len(result.vm_name) = Len(user) + 12
           /\ SubSeq(result.vm_name, 1, Len(user)) = user
           /\ SubSeq(result.vm_name, Len(user) + 1, Len(user) + 12)
                 = <<"-", "c", "l", "o", "u", "d", "-", "a", "g", "e", "n", "t">>

C18_Witness ==
    /\ args.fn = "Config::from_args" /\ args.input = JaneDoe
    /\ pc = "done"
    /\ result.ssh_username = <<"j", "a", "n", "e", "-", "d", "o", "e">>
    /\ result.vm_name = <<"j", "a", "n", "e", "-", "d", "o", "e", "-", "c", "l", "o", "u", "d",
                          "-", "a", "g", "e", "n", "t">>

\* u begins with the characters of p
Begins(u, p) == Len(u) >= Len(p) /\ \A i \in 1..Len(p) : u[i] = p[i]

\* C19: validate_repo_url returns Ok for the URLs that begin with git@, http:// or
\* https:// and for no other, and for any other returns InvalidRepoUrl with the URL.
C19_ValidIffScheme ==
    args.fn = "validate_repo_url" /\ pc = "done" =>
       IF \/ Begins(args.input, <<"g", "i", "t", "@">>)
          \/ Begins(args.input, <<"h", "t", "t", "p", ":", "/", "/">>)
          \/ Begins(args.input, <<"h", "t", "t", "p", "s", ":", "/", "/">>)
       THEN result[1]
       ELSE result = <<FALSE, args.input>>

C19_Witness ==
    /\ args.fn = "validate_repo_url" /\ args.input = UrlInvalid
    /\ pc = "done"
    /\ result = <<FALSE, UrlInvalid>>

HasSlash(u) == \E i \in 1..Len(u) : u[i] = "/"

\* what follows the last '/' of a URL that has one
LastSegment(u) ==
    LET i == CHOOSE k \in 1..Len(u) : u[k] = "/" /\ \A j \in (k + 1)..Len(u) : u[j] # "/"
    IN  SubSeq(u, i + 1, Len(u))

\* C20: extract_repo_name returns what follows the last '/' of the URL without its
\* .git suffix, and InvalidRepoUrl for a URL that has no '/' or when nothing is left.
C20_LastSegmentOrInvalid ==
    args.fn = "extract_repo_name" /\ pc = "done" =>
       IF ~HasSlash(args.input) THEN ~result[1]
       ELSE LET name == trim_end_matches(LastSegment(args.input), GitSuffix)
            IN  IF name = <<>> THEN ~result[1] ELSE result = <<TRUE, name>>

\* a string of decimal digits whose value is 255 at most
IsOctet(f) ==
    /\ f # <<>>
    /\ \A i \in 1..Len(f) : f[i] \in DOMAIN DigitValue
    /\ parse_digits(f, 0)[1]

\* exactly four '.'-separated fields, each a decimal number in 0..255
IsDottedQuad(s) ==
    LET dots == {i \in 1..Len(s) : s[i] = "."}
        cuts == {0} \cup dots \cup {Len(s) + 1}
    IN  /\ Cardinality(dots) = 3
        /\ \A a \in cuts, b \in cuts :
              a < b /\ (\A c \in cuts : ~(a < c /\ c < b)) => IsOctet(SubSeq(s, a + 1, b - 1))

\* C21: is_valid_ipv4 accepts a string if and only if it is a dotted quad: exactly
\* four '.'-separated fields, each a decimal number in 0..255.
C21_DottedQuadOnly ==
    args.fn = "is_valid_ipv4" /\ pc = "done" => (result = TRUE <=> IsDottedQuad(args.input))

\* the positions of vm_exists
InVmExists == {"vm_exists", "vm_exists_gcloud"}

\* the provisioning tool's output query of a probe succeeded
OutputOk(q) == \E i \in 1..Len(q) : q[i].op = "tf_output" /\ q[i].rc = "ok"

\* the inventory query of a probe listed the instance
InventoryLists(q) ==
    \E i \in 1..Len(q) : q[i].op = "gcloud_list_name" /\ q[i].rc = "ok" /\ q[i].arg = "listed"

\* C22: vm_exists ends either with a boolean or with the error of a process that
\* could not be run, never with VmNotFound; it returns true without asking the
\* inventory when the state file records the configured name, and in every other
\* case asks the inventory and returns true exactly when it lists the instance.
C22_ExistsIsBoolean ==
    [][ (pc \in InVmExists) /\ pc' \notin InVmExists =>
          LET q == probe'
              recorded == env.tfstate = "mine" /\ OutputOk(q)
              asked == \E i \in 1..Len(q) : q[i].op = "gcloud_list_name"
          IN  /\ pc' = "done" => result' = "Io" /\ q # <<>> /\ q[Len(q)].rc = "err"
              /\ pc' # "done" =>
                    /\ calls' = Append(calls, Call("vm_exists", "",
                                                   IF ret' THEN "true" ELSE "false"))
                    /\ recorded => ret' /\ ~asked
                    /\ ~recorded => asked /\ (ret' <=> InventoryLists(q))
      ]_vars

C22_Witness ==
    /\ calls # <<>> /\ calls[Len(calls)] = Call("vm_exists", "", "false")
    /\ env.tfstate = "other" /\ OutputOk(probe)
    /\ \E i \in 1..Len(probe) : probe[i].op = "gcloud_list_name" /\ probe[i].rc = "fail"

\* the positions of get_vm_ip
InGetVmIp == {"get_vm_ip", "get_vm_ip_gcloud"}

\* get_vm_ip ends here
GetVmIpEnds == (pc \in InGetVmIp) /\ pc' \notin InGetVmIp

\* the addresses a source can yield
Addresses == {"ip_mine", "ip_other"}

\* what get_vm_ip does with an address, whichever error it ends with otherwise
GetVmIpSources ==
    LET q == probe'
        state == \E i \in 1..Len(q) : q[i].op = "tf_output" /\ q[i].rc = "ok"
        live == \E i \in 1..Len(q) : q[i].op = "gcloud_describe" /\ q[i].rc = "ok"
        asked == \E i \in 1..Len(q) : q[i].op = "gcloud_describe"
    IN  /\ state => pc' # "done" /\ ~asked
        /\ ~state /\ live => pc' # "done"
        /\ pc' # "done" =>
              /\ state \/ live
              /\ vm_ip' \in Addresses
              /\ calls' = Append(calls, Call("get_vm_ip", vm_ip', "ok"))
        /\ \A i \in 1..Len(q) : q[i].op = "gcloud_describe" => i = Len(q)

\* C23 as stated: whenever both sources were asked and neither yields a non-empty
\* address, get_vm_ip fails with VmNotFound.
C23_Original ==
    [][ GetVmIpEnds =>
          /\ GetVmIpSources
          /\ pc' = "done" /\ (\A i \in 1..Len(probe') : probe'[i].rc # "err") =>
                result' = "VmNotFound"
      ]_vars

\* C23: get_vm_ip asks the state first and the live query second and returns the
\* first non-empty address; it fails with VmNotFound when the live query exits
\* non-zero, with "Could not determine VM IP address" when the live query succeeds
\* with empty output, and with the I/O error when a process could not be run.
C23_AddressOrError ==
    [][ GetVmIpEnds =>
          /\ GetVmIpSources
          /\ pc' = "done" =>
                LET last == probe'[Len(probe')]
                IN  /\ last.rc = "err" => result' = "Io"
                    /\ last.rc = "fail" => last.op = "gcloud_describe" /\ result' = "VmNotFound"
                    /\ last.rc = "empty" =>
                          /\ last.op = "gcloud_describe"
                          /\ result' = "Could not determine VM IP address"
                    /\ last.rc \in {"err", "fail", "empty"}
      ]_vars

C23_Witness ==
    /\ pc = "done" /\ result = "Could not determine VM IP address"
    /\ Len(probe) = 2
    /\ probe[1].op = "tf_output" /\ probe[1].rc = "empty"
    /\ probe[2].op = "gcloud_describe" /\ probe[2].rc = "empty"

\* the replies so far came from the services in their order
InServiceOrder ==
    /\ Len(probe) <= Len(Services)
    /\ \A i \in 1..Len(probe) : probe[i].op = "ip_echo" /\ probe[i].arg = Services[i]

\* the i-th service answered with a valid IPv4 address
ValidReply(i) == probe[i].rc # "err" /\ IsDottedQuad(trim(probe[i].out))

\* C24: detect_public_ipv4 asks the services in their fixed order; it returns on the
\* first service whose answer is a valid IPv4 address, with that address and /32,
\* skips a service that fails or answers anything else, and fails with
\* IpDetectionFailed only when every service was asked and none gave a valid address.
C24_FirstValidService ==
    /\ pc = "detect_public_ipv4" =>
          InServiceOrder /\ \A i \in 1..Len(probe) : ~ValidReply(i)
    /\ pc = "get_ssh_config" =>
          /\ InServiceOrder /\ probe # <<>>
          /\ \A i \in 1..Len(probe) : ValidReply(i) <=> i = Len(probe)
          /\ calls[Len(calls)].op = "detect_public_ipv4"
          /\ calls[Len(calls)].out = trim(probe[Len(probe)].out) \o Slash32
    /\ pc = "done" /\ result = "IpDetectionFailed" =>
          /\ InServiceOrder /\ Len(probe) = Len(Services)
          /\ \A i \in 1..Len(probe) : ~ValidReply(i)

\* the i-th entry of calls is a write of the variable file whose allow-list holds the
\* address a detect_public_ipv4 before it returned
WritesDetected(i) ==
    /\ calls[i].op = "tfvars_write"
    /\ \E d \in 1..(i - 1) :
          /\ calls[d].op = "detect_public_ipv4"
          /\ \E k \in 1..Len(calls[i].out) : calls[i].out[k] = calls[d].out

\* C25: every terraform apply of an invocation comes after a successful write of
\* terraform.tfvars in the same invocation; every write of the file lists the address
\* detect_public_ipv4 returned; when detection fails there is no write of the file
\* and no terraform init or apply.
C25_TfvarsBeforeApply ==
    /\ \A i \in Idx :
          calls[i].op = "tf_apply" =>
             \E w \in 1..(i - 1) : WritesDetected(w) /\ calls[w].rc = "ok"
    /\ \A i \in Idx : calls[i].op = "tfvars_write" => WritesDetected(i)
    /\ (pc = "detect_public_ipv4" \/ (Ended /\ result = "IpDetectionFailed")) =>
          ~IssuedAny(CreateOps)

C25_Witness ==
    /\ args.command = "tf"
    /\ \E i \in Idx :
          /\ calls[i].op = "tf_apply"
          /\ \E w \in 1..(i - 1) :
                /\ calls[w].op = "tfvars_write" /\ calls[w].rc = "ok"
                /\ calls[w].out = << <<"1", ".", "1", ".", "1", ".", "1">> \o Slash32 >>

\* C26: every remote command and file copy of deploy, ssh and scp goes to the address
\* of the instance named config.vm_name; the address of the terraform state is
\* returned by get_vm_ip only when the state records that name.
C26_TargetIsConfiguredVm ==
    /\ \A i \in Idx : calls[i].op \in RemoteOps => calls[i].to = "ip_mine"
    /\ \A i \in Idx : calls[i].op = "get_vm_ip" /\ env.tfstate # "mine" => calls[i].arg = "ip_mine"

\* C27: in one deployment, when the command for a URL succeeded, the command for a
\* later URL of the same short name pulls in the directory that exists and does not
\* clone: the later repository is not cloned.
C27_SameNameSharesDirectory ==
    \A j \in Idx :
       calls[j].op = "ssh_clone" =>
          \A i \in 1..(j - 1) :
             /\ calls[i].op = "ssh_clone" /\ calls[i].rc = "ok"
             /\ RepoName(calls[i].repo) = RepoName(calls[j].repo)
             => /\ calls[j].arg = "pull"
                /\ RepoName(calls[j].repo) \in env.workspace

C27_Witness ==
    /\ args.repos = <<UrlSsh, UrlHttps>>
    /\ \E i \in Idx, j \in Idx :
          /\ i < j
          /\ calls[i].op = "ssh_clone" /\ calls[i].repo = UrlSsh
          /\ calls[i].arg = "clone" /\ calls[i].rc = "ok"
          /\ calls[j].op = "ssh_clone" /\ calls[j].repo = UrlHttps
          /\ calls[j].arg = "pull" /\ calls[j].rc = "ok"

IsClone(c) == c.op = "ssh_clone"

\* C28: the clone-or-pull commands of an invocation are for the URLs of the list in
\* its order, one each; a command that fails is the last thing the invocation does,
\* and a URL without a name ends it with InvalidRepoUrl before any command for that
\* URL or a later one; in both cases the invocation ends in error without the READY
\* report, and the directories of the URLs before stay in the workspace.
C28_StopAtFirstFailure ==
    LET cl == SelectSeq(calls, IsClone)
        m == Len(cl)
    IN  /\ m <= Len(args.repos)
        /\ \A n \in 1..m :
              /\ cl[n].repo = args.repos[n]
              /\ cl[n].rc = "ok" => RepoName(cl[n].repo) \in env.workspace
              /\ cl[n].rc # "ok" =>
                    /\ n = m /\ IsClone(calls[Len(calls)])
                    /\ Failed /\ ~obs.ready
        /\ Ended /\ result = "InvalidRepoUrl" =>
              /\ m < Len(args.repos)
              /\ ~extract_repo_name(args.repos[m + 1])[1]
              /\ \A n \in 1..m : cl[n].rc = "ok"
              /\ ~obs.ready

C28_Witness ==
    /\ args.repos = <<UrlSsh, UrlNoName>>
    /\ Ended /\ result = "InvalidRepoUrl"
    /\ Len(SelectSeq(calls, IsClone)) = 1
    /\ calls[Len(calls)].op = "ssh_clone" /\ calls[Len(calls)].arg = "clone"
    /\ <<"r">> \in env.workspace

====
